---- MODULE Spec2Model ----
(***************************************************************************)
(* Leads dashboard (src/app.py): a Streamlit script that is re-executed    *)
(* top to bottom on every user interaction.  It reads the "leads" table    *)
(* through fetch_leads, which is memoized by st.cache_data(ttl=60), and    *)
(* renders four metrics, a table with a CSV export, or a placeholder.      *)
(*                                                                         *)
(* Spec      : one browser session against a changing store (cache, TTL,   *)
(*             refresh, faults).                                           *)
(* SpecFetch : one script run from every combination of filter values and  *)
(*             store content (the filtering, sorting and rendering).       *)
(***************************************************************************)
EXTENDS Integers, Sequences, FiniteSets, TLC

VARIABLES client_id, status_filter, source_filter, date_range, store, cache, out

vars == <<client_id, status_filter, source_filter, date_range, store, cache, out>>

----------------------------------------------------------------------------
(* Bounds of the exploration *)

\* days are numbered 1..MaxDay; MaxDay is "today"
MaxDay == 2
\* longest multiselect selection explored by SpecFetch (besides the default)
MaxSel == 1
\* number of memoized results the session is explored with
MaxEntries == 1

----------------------------------------------------------------------------
(* Program constants *)

TTL == 60
SecondsPerDay == 86400
SecondsPerMinute == 60

StatusOptions == <<"new", "contacted", "qualified", "closed-won", "closed-lost">>
SourceOptions == <<"website_form", "linkedin", "cold_email", "referral", "other">>
DefaultClient == "test_client_1"
DefaultStatus == <<"new", "contacted", "qualified">>
DefaultSource == <<>>
DefaultDateRange == <<1, MaxDay>>

DisplayColumns ==
    <<"lead_name", "lead_email", "lead_phone", "company",
      "source", "status", "created_at", "notes">>

Range(s) == {s[i] : i \in DOMAIN s}

----------------------------------------------------------------------------
(* The leads table *)

\* one row of the table; created_at is in seconds
Lead(id, client, status, source, day, sec) ==
    [id |-> id, client_id |-> client,
     lead_name |-> <<"name", id>>, lead_email |-> <<"email", id>>,
     lead_phone |-> <<"phone", id>>, company |-> <<"company", id>>,
     source |-> source, status |-> status,
     created_at |-> day * SecondsPerDay + sec, notes |-> <<"notes", id>>]

\* the rows external processes may write (statuses and sources are drawn
\* from the enumerations, as the store enforces)
LeadUniverse ==
    { Lead(1, "test_client_1", "new", "website_form", 1, 3600),
      Lead(2, "test_client_1", "qualified", "linkedin", MaxDay, 30),
      Lead(3, "test_client_1", "new", "linkedin", MaxDay, 30),
      Lead(4, "acme", "closed-won", "linkedin", MaxDay, 59),
      Lead(5, "test_client_1", "closed-lost", "other", MaxDay + 1, 0) }

\* the rows written while a session is explored
SessionLeads == {l \in LeadUniverse : l.id \in {2, 4}}

----------------------------------------------------------------------------
(* Values of the sidebar widgets *)

ClientIds == {"test_client_1", "acme"}

RECURSIVE Selections(_, _)
\* duplicate-free selections of at most n options, in the order selected
Selections(options, n) ==
    IF n = 0 THEN {<<>>}
    ELSE LET shorter == Selections(options, n - 1)
         IN shorter \cup
            {Append(s, o) : <<s, o>> \in
                {p \in shorter \X Range(options) : p[2] \notin Range(p[1])}}

StatusSelections == Selections(StatusOptions, MaxSel) \cup {DefaultStatus}
SourceSelections == Selections(SourceOptions, MaxSel)

\* a range (start, end) with start <= end <= today, or the single date the
\* widget returns while the range is being picked
DateRanges ==
    {<<a, b>> : <<a, b>> \in {p \in (1..MaxDay) \X (1..MaxDay) : p[1] <= p[2]}}
    \cup {<<a>> : a \in 1..MaxDay}

\* the widget values a session is explored with
SessionStatus == {DefaultStatus, <<>>}
SessionSource == {DefaultSource, <<"linkedin">>}
SessionDates  == {DefaultDateRange, <<MaxDay>>}

----------------------------------------------------------------------------
(* fetch_leads *)

\* pd.DataFrame(): no columns, no rows
EmptyFrame == [cols |-> FALSE, rows |-> <<>>]

\* created_at.dt.date
DateOf(ts) == ts \div SecondsPerDay

\* in_("status", []) applied also for an empty selection
StoreQueryAlways(rows, client, status_list) ==
    {l \in rows : l.client_id = client /\ l.status \in Range(status_list)}

\* supabase.table("leads").select("*").eq(...).in_(...).execute()
StoreQuery(rows, client, status_list) ==
    {l \in rows : /\ l.client_id = client
                  /\ (status_list # <<>> => l.status \in Range(status_list))}

\* the end date excluded
DateFilterExclusive(rows, start_date, end_date) ==
    {l \in rows : DateOf(l.created_at) >= start_date
                  /\ DateOf(l.created_at) < end_date}

DateFilter(rows, start_date, end_date) ==
    {l \in rows : DateOf(l.created_at) >= start_date
                  /\ DateOf(l.created_at) <= end_date}

SourceFilter(rows, source_list) ==
    IF source_list # <<>> THEN {l \in rows : l.source \in Range(source_list)}
    ELSE rows

RECURSIVE Orderings(_)
Orderings(S) ==
    IF S = {} THEN {<<>>}
    ELSE UNION {{<<x>> \o p : p \in Orderings(S \ {x})} : x \in S}

\* ascending=True
SortValuesAscending(S) ==
    {p \in Orderings(S) :
        \A i \in 1..(Len(p) - 1) : p[i].created_at <= p[i + 1].created_at}

\* df.sort_values('created_at', ascending=False): the order of rows with
\* equal created_at is whatever the store's response order makes it
SortValues(S) ==
    {p \in Orderings(S) :
        \A i \in 1..(Len(p) - 1) : p[i].created_at >= p[i + 1].created_at}

\* no except branch: the fault leaves fetch_leads
OnFaultRaise == [df |-> EmptyFrame, error |-> FALSE, raised |-> TRUE, calls |-> 1]

\* the except branch
OnFault == [df |-> EmptyFrame, error |-> TRUE, raised |-> FALSE, calls |-> 1]

\* the outcomes of one execution of the body of fetch_leads
fetch_leads(rows, fault, client, status_list, source_list, start_date, end_date) ==
    IF fault THEN {OnFault}
    ELSE LET data == StoreQuery(rows, client, status_list)
         IN IF data = {}
            THEN {[df |-> EmptyFrame, error |-> FALSE, raised |-> FALSE, calls |-> 1]}
            ELSE {[df |-> [cols |-> TRUE, rows |-> r], error |-> FALSE,
                   raised |-> FALSE, calls |-> 1] :
                    r \in SortValues(SourceFilter(
                            DateFilter(data, start_date, end_date), source_list))}

----------------------------------------------------------------------------
(* st.cache_data(ttl=60) *)

CacheKey(client, status_list, source_list, start_date, end_date) ==
    <<client, status_list, source_list, start_date, end_date>>

\* no ttl
FreshForever(entry) == entry.age >= 0

Fresh(entry) == entry.age < TTL

\* only a fetch without a fault is memoized
MemoizedUnlessError(res) == ~res.raised /\ ~res.error

\* a returned value is memoized
Memoized(res) == ~res.raised

TickStep == TTL \div 2
AgeCap == TTL + TickStep

----------------------------------------------------------------------------
(* The page: metrics, table, export, placeholder *)

\* strftime('%Y-%m-%d %H:%M'): the seconds are dropped
Strftime(ts) == ts \div SecondsPerMinute

\* df_leads[[...]].copy() with created_at formatted
display_df(rows) ==
    [i \in 1..Len(rows) |->
        [j \in 1..Len(DisplayColumns) |->
            IF DisplayColumns[j] = "created_at"
            THEN Strftime(rows[i].created_at)
            ELSE rows[i][DisplayColumns[j]]]]

\* display_df.to_csv(index=False): the header line, then one line per row
to_csv(table) == <<DisplayColumns>> \o table

\* len(df_leads[df_leads['status'] == s])
CountStatus(rows, s) == Cardinality({i \in DOMAIN rows : rows[i].status = s})

\* what a script run leaves on the page, what its fetch did, and the content
\* of the leads table at the time of its fetch
Blank ==
    [rendered |-> FALSE, refresh |-> FALSE, exception |-> "none",
     error |-> FALSE, metrics |-> <<>>,
     table_shown |-> FALSE, table |-> <<>>,
     export_shown |-> FALSE, csv |-> <<>>, placeholder |-> FALSE,
     fetched |-> FALSE, prior |-> -1, hit |-> FALSE, calls |-> 0,
     fault |-> FALSE, df_leads |-> EmptyFrame, table_then |-> {}]

\* lines 95-138, given what fetch_leads returned
Page(res) ==
    LET df == res.df
        shown == [Blank EXCEPT !.rendered = TRUE, !.fetched = TRUE,
                               !.error = res.error, !.df_leads = df]
    IN IF res.raised
       THEN [shown EXCEPT !.exception = "StoreFault"]
       ELSE IF ~df.cols
       \* df_leads['status'] on a frame without columns
       THEN [shown EXCEPT !.metrics = <<Len(df.rows)>>, !.exception = "KeyError"]
       ELSE LET counted ==
                   [shown EXCEPT !.metrics =
                       <<Len(df.rows), CountStatus(df.rows, "new"),
                         CountStatus(df.rows, "qualified"),
                         CountStatus(df.rows, "closed-won")>>]
            IN IF df.rows # <<>>
               THEN [counted EXCEPT !.table_shown = TRUE,
                                    !.table = display_df(df.rows),
                                    !.export_shown = TRUE,
                                    !.csv = to_csv(display_df(df.rows))]
               ELSE [counted EXCEPT !.placeholder = TRUE]

----------------------------------------------------------------------------
(* One execution of the script *)

HasRoom(key) ==
    Cardinality({k \in DOMAIN cache \ {key} : Fresh(cache[k])}) < MaxEntries

\* the entry is written; entries past their ttl are dropped on a write
Put(key, args, res) ==
    LET kept == {k \in DOMAIN cache \ {key} : Fresh(cache[k])}
    IN [k \in kept \cup {key} |->
           IF k = key
           THEN [args |-> args, df |-> res.df, error |-> res.error, age |-> 0]
           ELSE cache[k]]

ScriptRun(c, st, so, dr, refresh) ==
    IF Len(dr) < 2
    \* date_range[1] while only one date is picked
    THEN /\ out' = [Blank EXCEPT !.rendered = TRUE, !.refresh = refresh,
                                 !.exception = "IndexError"]
         /\ UNCHANGED cache
    ELSE LET args == <<c, st, so, dr[1], dr[2]>>
             key == CacheKey(c, st, so, dr[1], dr[2])
             prior == IF key \in DOMAIN cache THEN cache[key].age ELSE -1
         IN IF key \in DOMAIN cache /\ Fresh(cache[key])
            THEN \* cache hit: the value and the recorded st.error are replayed
                 /\ out' = [Page([df |-> cache[key].df, error |-> cache[key].error,
                                  raised |-> FALSE, calls |-> 0])
                               EXCEPT !.refresh = refresh, !.prior = prior,
                                      !.hit = TRUE, !.fault = FALSE,
                                      !.table_then = store]
                 /\ UNCHANGED cache
            ELSE /\ HasRoom(key)
                 /\ \E fault \in BOOLEAN :
                      \E res \in fetch_leads(store, fault, c, st, so, dr[1], dr[2]) :
                        /\ out' = [Page(res) EXCEPT !.refresh = refresh,
                                                    !.prior = prior,
                                                    !.calls = res.calls,
                                                    !.fault = fault,
                                                    !.table_then = store]
                        /\ cache' = IF Memoized(res) THEN Put(key, args, res)
                                    ELSE cache

----------------------------------------------------------------------------
(* Actions *)

Init ==
    /\ client_id = DefaultClient
    /\ status_filter = DefaultStatus
    /\ source_filter = DefaultSource
    /\ date_range = DefaultDateRange
    /\ store = {}
    /\ cache = [k \in {} |-> 0]
    /\ out = Blank

\* a browser opens the page: the widgets take their defaults
NewSession ==
    /\ client_id' = DefaultClient
    /\ status_filter' = DefaultStatus
    /\ source_filter' = DefaultSource
    /\ date_range' = DefaultDateRange
    /\ UNCHANGED store
    /\ ScriptRun(DefaultClient, DefaultStatus, DefaultSource, DefaultDateRange, FALSE)

SetClientId ==
    /\ out.rendered
    /\ \E c \in ClientIds \ {client_id} :
         /\ client_id' = c
         /\ ScriptRun(c, status_filter, source_filter, date_range, FALSE)
    /\ UNCHANGED <<status_filter, source_filter, date_range, store>>

SetStatusFilter ==
    /\ out.rendered
    /\ \E st \in SessionStatus \ {status_filter} :
         /\ status_filter' = st
         /\ ScriptRun(client_id, st, source_filter, date_range, FALSE)
    /\ UNCHANGED <<client_id, source_filter, date_range, store>>

SetSourceFilter ==
    /\ out.rendered
    /\ \E so \in SessionSource \ {source_filter} :
         /\ source_filter' = so
         /\ ScriptRun(client_id, status_filter, so, date_range, FALSE)
    /\ UNCHANGED <<client_id, status_filter, date_range, store>>

SetDateRange ==
    /\ out.rendered
    /\ \E dr \in SessionDates \ {date_range} :
         /\ date_range' = dr
         /\ ScriptRun(client_id, status_filter, source_filter, dr, FALSE)
    /\ UNCHANGED <<client_id, status_filter, source_filter, store>>

\* the "Refresh Data" button: st.rerun() runs the script again
RefreshData ==
    /\ out.rendered
    /\ ScriptRun(client_id, status_filter, source_filter, date_range, TRUE)
    /\ UNCHANGED <<client_id, status_filter, source_filter, date_range, store>>

\* time passes
Tick ==
    /\ \E k \in DOMAIN cache : cache[k].age < AgeCap
    /\ cache' = [k \in DOMAIN cache |->
                    [cache[k] EXCEPT !.age =
                        IF @ + TickStep > AgeCap THEN AgeCap ELSE @ + TickStep]]
    /\ UNCHANGED <<client_id, status_filter, source_filter, date_range, store, out>>

\* external processes write the table
StoreInsert ==
    /\ \E l \in SessionLeads \ store : store' = store \cup {l}
    /\ UNCHANGED <<client_id, status_filter, source_filter, date_range, cache, out>>

StoreDelete ==
    /\ \E l \in store : store' = store \ {l}
    /\ UNCHANGED <<client_id, status_filter, source_filter, date_range, cache, out>>

Next ==
    \/ NewSession
    \/ SetClientId
    \/ SetStatusFilter
    \/ SetSourceFilter
    \/ SetDateRange
    \/ RefreshData
    \/ Tick
    \/ StoreInsert
    \/ StoreDelete

Spec == Init /\ [][Next]_vars

----------------------------------------------------------------------------
(* One script run from any filter values and any table content *)

InitFetch ==
    /\ client_id \in ClientIds
    /\ status_filter \in StatusSelections
    /\ source_filter \in SourceSelections
    /\ date_range \in DateRanges
    /\ store \in SUBSET LeadUniverse
    /\ cache = [k \in {} |-> 0]
    /\ out = Blank

LoadPage ==
    /\ ~out.rendered
    /\ ScriptRun(client_id, status_filter, source_filter, date_range, FALSE)
    /\ UNCHANGED <<client_id, status_filter, source_filter, date_range, store>>

NextFetch == LoadPage

SpecFetch == InitFetch /\ [][NextFetch]_vars

----------------------------------------------------------------------------
(* Claims *)

\* the input tuple of the last script run (the widgets change only in a run)
CurArgs ==
    <<client_id, status_filter, source_filter, date_range[1], date_range[2]>>

\* the memoized entries computed for the input tuple of the last run
CurEntries == {k \in DOMAIN cache : cache[k].args = CurArgs}

NoMetrics == <<0, 0, 0, 0>>

\* C1: a run triggered by the Refresh Data button issues a new store call
\* for its input tuple, also when an entry younger than 60 s exists for it.
C1_RefreshBypassesCache ==
    (out.refresh /\ out.fetched) => (out.calls = 1 /\ ~out.hit)

C3_FaultPage ==
    (out.fetched /\ out.fault) =>
        /\ out.error
        /\ out.exception = "none"
        /\ out.metrics = NoMetrics
        /\ out.placeholder
        /\ ~out.table_shown
        /\ ~out.export_shown

\* C4: after an empty store response the page shows four metrics of 0 and
\* the placeholder, neither table nor export, and no error.
C4_EmptyPage ==
    (out.fetched /\ out.calls = 1 /\ ~out.fault /\ ~out.df_leads.cols) =>
        /\ ~out.error
        /\ out.exception = "none"
        /\ out.metrics = NoMetrics
        /\ out.placeholder
        /\ ~out.table_shown
        /\ ~out.export_shown

\* the rows of the table the contract of fetch_leads selects
Matching ==
    {l \in store :
        /\ l.client_id = client_id
        /\ (status_filter # <<>> => \E i \in DOMAIN status_filter : l.status = status_filter[i])
        /\ (source_filter # <<>> => \E i \in DOMAIN source_filter : l.source = source_filter[i])
        /\ date_range[1] * SecondsPerDay <= l.created_at
        /\ l.created_at < (date_range[2] + 1) * SecondsPerDay}

\* C5: without a fault the returned sequence holds exactly the matching rows
\* of the table, each once.
C5_ExactlyMatching ==
    (out.fetched /\ ~out.fault) =>
        /\ Range(out.df_leads.rows) = Matching
        /\ Len(out.df_leads.rows) = Cardinality(Matching)

\* rows returned while the table holds a row of another client and rows of
\* the client outside the status selection, the source selection and the
\* date range
C5_Witness ==
    /\ out.fetched /\ ~out.fault
    /\ out.df_leads.rows # <<>>
    /\ status_filter # <<>> /\ source_filter # <<>>
    /\ \E l \in store : l.client_id # client_id
    /\ \E l \in store : l.client_id = client_id /\ l.status \notin Range(status_filter)
    /\ \E l \in store : l.client_id = client_id /\ l.source \notin Range(source_filter)
    /\ \E l \in store : l.client_id = client_id /\ DateOf(l.created_at) > date_range[2]
    /\ \E l \in store : l.client_id = client_id /\ DateOf(l.created_at) < date_range[1]

\* C6: with an empty status selection the fetch returns what it returns with
\* all five statuses selected, and likewise for the sources.
C6_EmptyIsUnconstrained ==
    (out.fetched /\ ~out.fault) =>
        /\ status_filter = <<>> =>
             out.df_leads \in
               {r.df : r \in fetch_leads(store, FALSE, client_id, StatusOptions,
                                         source_filter, date_range[1], date_range[2])}
        /\ source_filter = <<>> =>
             out.df_leads \in
               {r.df : r \in fetch_leads(store, FALSE, client_id, status_filter,
                                         SourceOptions, date_range[1], date_range[2])}

\* both selections empty and rows of two statuses and two sources returned
C6_Witness ==
    /\ out.fetched /\ ~out.fault
    /\ status_filter = <<>> /\ source_filter = <<>>
    /\ Cardinality({l.status : l \in Range(out.df_leads.rows)}) >= 2
    /\ Cardinality({l.source : l \in Range(out.df_leads.rows)}) >= 2

\* C7: a store fault is caught in fetch_leads: the error is reported, the
\* empty frame is returned, the fault does not reach the script, and the
\* store was called once.
C7_FaultCaught ==
    (out.fetched /\ out.fault) =>
        /\ out.error
        /\ out.df_leads = EmptyFrame
        /\ out.exception # "StoreFault"
        /\ out.calls = 1

C7_Witness == out.fetched /\ out.fault /\ out.calls = 1

\* C8: the returned rows are in descending order of created_at, and the
\* table and the export list them in that order.
C8_SortedDescending ==
    out.fetched =>
        LET rows == out.df_leads.rows
        IN /\ \A i \in 1..(Len(rows) - 1) :
                 rows[i].created_at >= rows[i + 1].created_at
           /\ out.table_shown =>
                 /\ Len(out.table) = Len(rows)
                 /\ \A i \in 1..Len(rows) :
                      /\ out.table[i][1] = rows[i].lead_name
                      /\ out.table[i][7] * SecondsPerMinute <= rows[i].created_at
                      /\ rows[i].created_at < (out.table[i][7] + 1) * SecondsPerMinute
           /\ out.export_shown =>
                 /\ Len(out.csv) = Len(rows) + 1
                 /\ \A i \in 1..Len(rows) :
                      out.csv[i + 1][1] = rows[i].lead_name

\* a table of rows created on different days
C8_Witness ==
    /\ out.table_shown /\ out.export_shown
    /\ \E i, j \in DOMAIN out.df_leads.rows :
          DateOf(out.df_leads.rows[i].created_at) # DateOf(out.df_leads.rows[j].created_at)

\* C9: a sequence of N >= 1 rows is exported as the header line and the N
\* table rows in order, with the eight columns; table and export are shown
\* exactly when the sequence is non-empty, and the placeholder otherwise.
C9_ExportMatchesTable ==
    out.fetched =>
        LET rows == out.df_leads.rows
        IN /\ rows # <<>> =>
                 /\ Len(out.csv) = Len(rows) + 1
                 /\ out.csv[1] = DisplayColumns
                 /\ \A i \in 1..Len(rows) :
                      /\ out.csv[i + 1] = out.table[i]
                      /\ Len(out.csv[i + 1]) = Len(DisplayColumns)
           /\ out.table_shown <=> rows # <<>>
           /\ out.export_shown <=> rows # <<>>
           /\ out.placeholder <=> rows = <<>>

\* C10: a fetch that ended in a caught fault leaves a memoized empty result
\* for its input tuple, and a fetch that finds it younger than 60 s returns
\* the empty frame without a store call.
C10_FaultMemoized ==
    /\ (out.fetched /\ out.fault) =>
          \E k \in CurEntries : cache[k].error /\ cache[k].df = EmptyFrame
    /\ (out.fetched /\ out.prior >= 0 /\ out.prior < TTL
            /\ \E k \in CurEntries : cache[k].error) =>
          (out.calls = 0 /\ out.df_leads = EmptyFrame)

\* a hit on the result of a faulted fetch, some time after the fault
C10_Witness ==
    /\ out.hit /\ out.calls = 0
    /\ out.prior > 0
    /\ \E k \in CurEntries : cache[k].error
    /\ out.df_leads = EmptyFrame

====
